---- MODULE Spec2Model ----
(***************************************************************************)
(* Model of pyenphase/auth.py: the token authenticator EnvoyTokenAuth      *)
(* (cloud login -> token exchange -> local check_jwt verification) with    *)
(* the tenacity retry policy of its cloud POST helper.                     *)
(*                                                                         *)
(* The authenticator object is the dictionary `self` (its __dict__): an    *)
(* attribute that was never assigned is not in DOMAIN self, as in Python.  *)
(* A coroutine (setup, refresh) runs atomically between two awaits of the  *)
(* network; every network answer or fault is one step.                     *)
(***************************************************************************)
EXTENDS Integers, Sequences, FiniteSets, TLC

\* ------------------------------------------------------------------ bounds

\* The most network faults the environment injects into one cloud POST.
MaxFaults == 2

\* --------------------------------------------------------- python values

\* Python's None (a value no string of the model equals).
None == "<None>"
\* "no exception was raised"
NoExc == ""

\* bool(v) for a value of type str | None: `not v` is ~Truthy(v).
Truthy(v) == v # None /\ v # ""

HasAttr(obj, a) == a \in DOMAIN obj

\* obj.a = v
SetAttr(obj, a, v) ==
    [k \in DOMAIN obj \cup {a} |-> IF k = a THEN v ELSE obj[k]]

\* The outcome of evaluating an expression: a value, or a raised exception.
Value(v) == [raised |-> NoExc, val |-> v]
Raised(exc, args) == [raised |-> exc, val |-> args]

\* ------------------------------------------------------------- constants

JSON_LOGIN_URL == "https://enlighten.enphaseenergy.com/login/login.json?"
TOKEN_URL == "https://entrez.enphaseenergy.com/tokens"

\* exceptions.EnvoyAuthenticationError
EnvoyAuthenticationError == "EnvoyAuthenticationError"

\* The exception types the retry policy of the cloud POST helper names.
RetriedExceptions == {"NetworkError", "TimeoutException", "RemoteProtocolError"}

\* ---------------------------------------------------- inputs (environment)

Host == "envoy.local"
Usernames == {None, "", "user@example.com"}
Passwords == {None, "", "secret"}
Serials == {None, "", "122302045041"}
\* the token given to the constructor
Tokens == {None, "", "tok0"}

\* Bodies of the cloud login response.
T_invalid == "not json"
T_scalar == "123"
T_empty == "{}"
T_noManager == "{\"is_consumer\":true}"
T_noSession == "{\"is_consumer\":true,\"manager_token\":\"m1\"}"
T_full1 == "{\"is_consumer\":true,\"manager_token\":\"m1\",\"session_id\":\"s1\"}"
T_full2 == "{\"is_consumer\":false,\"manager_token\":\"m2\",\"session_id\":\"s2\"}"

LoginTexts == {T_invalid, T_scalar, T_empty, T_noManager, T_noSession, T_full1, T_full2}

LoginResponses ==
    [status_code : {200}, text : LoginTexts]
        \cup [status_code : {401}, text : {T_invalid, T_full1}]

TokenResponses ==
    [status_code : {200}, text : {"", "tokA", "tokB"}]
        \cup {[status_code |-> 500, text |-> "oops"]}

CheckJwtResponses ==
    [status_code : {200}, cookies : {[sessionId |-> "c1"], [sessionId |-> "c2"]}]
        \cup {[status_code |-> 401, cookies |-> [sessionId |-> "cx"]]}

\* What a POST of the cloud client can raise: the three kinds the policy
\* names, subclasses of them, and one httpx error outside them.
PostExceptions ==
    RetriedExceptions
        \cup {"ConnectError", "ReadError", "ConnectTimeout", "ReadTimeout"}
        \cup {"TooManyRedirects"}
\* What the GET of the caller's client can raise.
GetExceptions == {"ConnectError"}

\* The tasks that call the authenticator.
Callers == {1, 2}

\* --------------------------------------------------------------- helpers

\* orjson.loads on the login bodies above.
orjson_loads(text) ==
    CASE text = T_scalar -> Value([type |-> "int", items |-> <<>>])
      [] text = T_empty -> Value([type |-> "dict", items |-> <<>>])
      [] text = T_noManager ->
            Value([type |-> "dict", items |-> [is_consumer |-> TRUE]])
      [] text = T_noSession ->
            Value([type |-> "dict",
                   items |-> [is_consumer |-> TRUE, manager_token |-> "m1"]])
      [] text = T_full1 ->
            Value([type |-> "dict",
                   items |-> [is_consumer |-> TRUE, manager_token |-> "m1",
                              session_id |-> "s1"]])
      [] text = T_full2 ->
            Value([type |-> "dict",
                   items |-> [is_consumer |-> FALSE, manager_token |-> "m2",
                              session_id |-> "s2"]])
      [] OTHER -> Raised("JSONDecodeError", <<text>>)

\* response[key] on a decoded body
GetItem(decoded, key) ==
    IF decoded.type # "dict" THEN Raised("TypeError", <<key>>)
    ELSE IF key \notin DOMAIN decoded.items THEN Raised("KeyError", <<key>>)
    ELSE Value(decoded.items[key])

\* The property EnvoyTokenAuth.token
token(obj) ==
    IF obj._token # None THEN Value(obj._token)
    ELSE Raised("AssertionError", <<>>)

\* The property EnvoyTokenAuth.headers
headers(obj) ==
    LET t == token(obj)
    IN  IF t.raised # NoExc THEN t
        ELSE Value([Authorization |-> "Bearer " \o t.val])

\* The property EnvoyTokenAuth.manager_token
manager_token(obj) ==
    IF ~HasAttr(obj, "_manager_token") THEN Raised("AttributeError", <<"_manager_token">>)
    ELSE IF obj._manager_token # None THEN Value(obj._manager_token)
    ELSE Raised("AssertionError", <<>>)

\* The property EnvoyTokenAuth.cookies
cookies(obj) ==
    IF HasAttr(obj, "_cookies") THEN Value(obj._cookies)
    ELSE Raised("AttributeError", <<"_cookies">>)

\* The property EnvoyTokenAuth.is_consumer
is_consumer(obj) ==
    IF HasAttr(obj, "_is_consumer") THEN Value(obj._is_consumer)
    ELSE Raised("AttributeError", <<"_is_consumer">>)

Properties == {"token", "headers", "manager_token", "cookies", "is_consumer"}

GetProperty(obj, name) ==
    CASE name = "token" -> token(obj)
      [] name = "headers" -> headers(obj)
      [] name = "manager_token" -> manager_token(obj)
      [] name = "cookies" -> cookies(obj)
      [] name = "is_consumer" -> is_consumer(obj)

\* EnvoyTokenAuth.get_endpoint_url
get_endpoint_url(obj, endpoint) == "https://" \o obj.host \o endpoint

\* The messages of the two guards at the head of _obtain_token.
MsgNoCredentials ==
    <<"Your firmware requires token authentication, ",
      " but no cloud credentials were provided to obtain the token.">>
MsgNoSerial ==
    <<"Your firmware requires token authentication, ",
      "but no envoy serial number was provided to obtain the token.">>

\* Mutant: the credentials guard joins its two tests with `and`.
CheckCredentials_And(obj) ==
    IF ~Truthy(obj.cloud_username) /\ ~Truthy(obj.cloud_password)
    THEN Raised(EnvoyAuthenticationError, MsgNoCredentials)
    ELSE IF ~Truthy(obj.envoy_serial)
    THEN Raised(EnvoyAuthenticationError, MsgNoSerial)
    ELSE Value(None)

\* The two guards at the head of _obtain_token: the error raised, or no error.
CheckCredentials(obj) ==
    IF ~Truthy(obj.cloud_username) \/ ~Truthy(obj.cloud_password)
    THEN Raised(EnvoyAuthenticationError, MsgNoCredentials)
    ELSE IF ~Truthy(obj.envoy_serial)
    THEN Raised(EnvoyAuthenticationError, MsgNoSerial)
    ELSE Value(None)

\* The login POST of _obtain_token.
LoginRequest(obj) ==
    [client |-> "cloud_client", method |-> "POST", url |-> JSON_LOGIN_URL,
     data |-> ("user[email]" :> obj.cloud_username)
                @@ ("user[password]" :> obj.cloud_password),
     json |-> None]

\* Mutant: the serial number and the username change places in the token POST.
TokenRequest_Swapped(obj, session_id) ==
    [client |-> "cloud_client", method |-> "POST", url |-> TOKEN_URL,
     data |-> None,
     json |-> [session_id |-> session_id, serial_num |-> obj.cloud_username,
               username |-> obj.envoy_serial]]

\* The token POST of _obtain_token.
TokenRequest(obj, session_id) ==
    [client |-> "cloud_client", method |-> "POST", url |-> TOKEN_URL,
     data |-> None,
     json |-> [session_id |-> session_id, serial_num |-> obj.envoy_serial,
               username |-> obj.cloud_username]]

\* The check_jwt GET of setup.
CheckJwtRequest(obj) ==
    [client |-> "client", method |-> "GET",
     url |-> get_endpoint_url(obj, "/auth/check_jwt"),
     headers |-> [Authorization |-> "Bearer " \o token(obj).val]]

\* Mutant: a login drops the cached token before the new one is obtained.
StoreLogin_ClearsToken(obj, decoded) ==
    LET a == GetItem(decoded, "is_consumer")
        o1 == SetAttr(SetAttr(obj, "_token", None), "_is_consumer", a.val)
        b == GetItem(decoded, "manager_token")
        o2 == SetAttr(o1, "_manager_token", b.val)
        c == GetItem(decoded, "session_id")
    IN  IF a.raised # NoExc THEN [obj |-> obj, out |-> a]
        ELSE IF b.raised # NoExc THEN [obj |-> o1, out |-> b]
        ELSE [obj |-> o2, out |-> c]

\* After a decoded 200 login: store is_consumer and manager_token, then read
\* session_id; each subscript can raise, and what was stored before stays.
StoreLogin(obj, decoded) ==
    LET a == GetItem(decoded, "is_consumer")
        o1 == SetAttr(obj, "_is_consumer", a.val)
        b == GetItem(decoded, "manager_token")
        o2 == SetAttr(o1, "_manager_token", b.val)
        c == GetItem(decoded, "session_id")
    IN  IF a.raised # NoExc THEN [obj |-> obj, out |-> a]
        ELSE IF b.raised # NoExc THEN [obj |-> o1, out |-> b]
        ELSE [obj |-> o2, out |-> c]

\* Mutant: the login answer is decoded and used whatever its status.
OnLogin_NoStatusCheck(obj, resp) ==
    LET decoded == orjson_loads(resp.text)
    IN  IF decoded.raised # NoExc
        THEN [obj |-> obj,
              out |-> Raised(EnvoyAuthenticationError,
                        <<"Unable to decode response from Enlighten: ",
                          resp.status_code, resp.text>>)]
        ELSE StoreLogin(obj, decoded.val)

\* _obtain_token on the answer to its login POST: the attributes afterwards,
\* and the session_id for the token POST or the exception raised.
OnLogin(obj, resp) ==
    LET decoded == orjson_loads(resp.text)
    IN  IF resp.status_code # 200
        THEN [obj |-> obj,
              out |-> Raised(EnvoyAuthenticationError,
                        <<"Unable to login to Enlighten to obtain session ID from ",
                          JSON_LOGIN_URL, resp.status_code, resp.text>>)]
        ELSE IF decoded.raised # NoExc
        THEN [obj |-> obj,
              out |-> Raised(EnvoyAuthenticationError,
                        <<"Unable to decode response from Enlighten: ",
                          resp.status_code, resp.text>>)]
        ELSE StoreLogin(obj, decoded.val)

\* Mutant: the token answer is decoded as JSON text, so the body comes back
\* re-encoded (quoted) instead of verbatim.
OnToken_Quoted(resp) ==
    IF resp.status_code # 200
    THEN Raised(EnvoyAuthenticationError,
                <<"Unable to obtain token for Envoy authentication from ",
                  TOKEN_URL, resp.status_code, resp.text>>)
    ELSE Value("\"" \o resp.text \o "\"")

\* Mutant: the body of the token answer is returned whatever its status.
OnToken_NoStatusCheck(resp) == Value(resp.text)

\* _obtain_token on the answer to its token POST: the token returned, or the
\* exception raised.
OnToken(resp) ==
    IF resp.status_code # 200
    THEN Raised(EnvoyAuthenticationError,
                <<"Unable to obtain token for Envoy authentication from ",
                  TOKEN_URL, resp.status_code, resp.text>>)
    ELSE Value(resp.text)

\* Mutant: setup obtains a token even when it holds one.
NeedsToken_Always(obj) == TRUE

\* setup: whether it has to obtain a token first.
NeedsToken(obj) == ~Truthy(obj._token)

\* Mutant: setup keeps a token that was cached while it was obtaining its own.
SetupStoreToken_FirstWins(obj, tok) ==
    IF Truthy(obj._token)
    THEN [obj |-> obj, out |-> Value(None)]
    ELSE [obj |-> SetAttr(obj, "_token", tok),
          out |-> IF ~Truthy(tok)
                  THEN Raised(EnvoyAuthenticationError,
                              <<"Unable to obtain token for Envoy authentication.">>)
                  ELSE Value(None)]

\* Mutant: setup does not look at the token it obtained.
SetupStoreToken_NoCheck(obj, tok) ==
    [obj |-> SetAttr(obj, "_token", tok), out |-> Value(None)]

\* setup after _obtain_token returned `tok`: cache it, and require a token.
SetupStoreToken(obj, tok) ==
    [obj |-> SetAttr(obj, "_token", tok),
     out |-> IF ~Truthy(tok)
             THEN Raised(EnvoyAuthenticationError,
                         <<"Unable to obtain token for Envoy authentication.">>)
             ELSE Value(None)]

\* Mutant: refresh keeps a token it already holds, as setup does.
RefreshStoreToken_KeepOld(obj, tok) ==
    IF Truthy(obj._token) THEN obj ELSE SetAttr(obj, "_token", tok)

\* refresh after _obtain_token returned `tok`.
RefreshStoreToken(obj, tok) == SetAttr(obj, "_token", tok)

\* Mutant: the cookies are stored before the status is looked at.
OnCheckJwt_StoreFirst(obj, resp) ==
    [obj |-> SetAttr(obj, "_cookies", resp.cookies),
     out |-> IF resp.status_code # 200
             THEN Raised(EnvoyAuthenticationError,
                         <<"Unable to verify token for Envoy authentication.">>)
             ELSE Value(None)]

\* setup on the answer to its check_jwt GET.
OnCheckJwt(obj, resp) ==
    IF resp.status_code # 200
    THEN [obj |-> obj,
          out |-> Raised(EnvoyAuthenticationError,
                         <<"Unable to verify token for Envoy authentication.">>)]
    ELSE [obj |-> SetAttr(obj, "_cookies", resp.cookies), out |-> Value(None)]

\* The classes an httpx exception is an instance of.
Mro(exc) ==
    {exc} \cup
    CASE exc \in {"ConnectError", "ReadError"} ->
             {"NetworkError", "TransportError", "RequestError", "HTTPError"}
      [] exc \in {"ConnectTimeout", "ReadTimeout"} ->
             {"TimeoutException", "TransportError", "RequestError", "HTTPError"}
      [] exc \in {"NetworkError", "TimeoutException"} ->
             {"TransportError", "RequestError", "HTTPError"}
      [] exc = "RemoteProtocolError" ->
             {"ProtocolError", "TransportError", "RequestError", "HTTPError"}
      [] exc = "TooManyRedirects" -> {"RequestError", "HTTPError"}
      [] OTHER -> {}

\* retry_if_exception_type(...) of the decorator: an isinstance test
retry_if_exception_type(exc) == Mro(exc) \cap RetriedExceptions # {}

\* Mutant: the policy stops after two attempts (stop_after_attempt(2)).
retry_stop_AfterTwo(attempt_number) == attempt_number >= 2

\* The stop condition of the decorator: none is given, tenacity's stop_never.
retry_stop(attempt_number) == FALSE

\* Mutant: the cloud client is created without `async with` and never closed.
aexit_Leak(clients) == clients

\* `async with httpx.AsyncClient(...)`: entering opens one more client,
\* leaving (return or exception) closes it.
aenter(clients) == Append(clients, "open")
aexit(clients) == [i \in DOMAIN clients |-> "closed"]

\* ----------------------------------------------------------------- state

VARIABLES
    self,           \* the authenticator's attributes
    pc,             \* per caller: where its current call is suspended
    op,             \* per caller: the operation it called last
    pre,            \* per caller: the attributes when that call started
    log,            \* per caller: the network events of that call, in order
    cloud_clients,  \* per caller: the cloud clients that call opened
    attempt,        \* per caller: attempt number of the POST being retried
    result          \* per caller: how the call ended; while the cloud client
                    \* is closing, what _obtain_token returns or raises

vars == <<self, pc, op, pre, log, cloud_clients, attempt, result>>

Send(req) == [ev |-> "send", req |-> req]
Recv(resp) == [ev |-> "recv", resp |-> resp]
Fault == [ev |-> "fault"]

Init ==
    /\ self \in {[host |-> Host, cloud_username |-> u, cloud_password |-> w,
                  envoy_serial |-> s, _token |-> t] :
                    u \in Usernames, w \in Passwords, s \in Serials, t \in Tokens}
    /\ pc = [p \in Callers |-> "idle"]
    /\ op = [p \in Callers |-> "none"]
    /\ pre = [p \in Callers |-> self]
    /\ log = [p \in Callers |-> <<>>]
    /\ cloud_clients = [p \in Callers |-> <<>>]
    /\ attempt = [p \in Callers |-> 0]
    /\ result = [p \in Callers |-> Value(None)]

\* The call of p ends: it returned or raised `out`.
Finish(p, out) ==
    /\ pc' = [pc EXCEPT ![p] = "done"]
    /\ result' = [result EXCEPT ![p] = out]

\* Entry of _obtain_token up to its first await, `lg` being the events so far.
ObtainTokenEnter(p, lg) ==
    LET chk == CheckCredentials(self)
    IN  /\ self' = self
        /\ IF chk.raised # NoExc
           THEN /\ Finish(p, chk)
                /\ log' = [log EXCEPT ![p] = lg]
                /\ cloud_clients' = [cloud_clients EXCEPT ![p] = <<>>]
                /\ attempt' = [attempt EXCEPT ![p] = 0]
           ELSE /\ pc' = [pc EXCEPT ![p] = "login_wait"]
                /\ result' = [result EXCEPT ![p] = Value(None)]
                /\ log' = [log EXCEPT ![p] = Append(lg, Send(LoginRequest(self)))]
                /\ cloud_clients' = [cloud_clients EXCEPT ![p] = aenter(<<>>)]
                /\ attempt' = [attempt EXCEPT ![p] = 1]

\* The check_jwt request of setup, sent with the token of `obj`.
SendCheckJwt(p, obj, lg) ==
    /\ pc' = [pc EXCEPT ![p] = "jwt_wait"]
    /\ result' = [result EXCEPT ![p] = Value(None)]
    /\ log' = [log EXCEPT ![p] = Append(lg, Send(CheckJwtRequest(obj)))]

\* await auth.setup(client), up to its first await
CallSetup(p) ==
    /\ pc[p] \in {"idle", "done"}
    /\ op' = [op EXCEPT ![p] = "setup"]
    /\ pre' = [pre EXCEPT ![p] = self]
    /\ IF NeedsToken(self)
       THEN ObtainTokenEnter(p, <<>>)
       ELSE /\ SendCheckJwt(p, self, <<>>)
            /\ self' = self
            /\ cloud_clients' = [cloud_clients EXCEPT ![p] = <<>>]
            /\ attempt' = [attempt EXCEPT ![p] = 0]

\* await auth.refresh(), up to its first await
CallRefresh(p) ==
    /\ pc[p] \in {"idle", "done"}
    /\ op' = [op EXCEPT ![p] = "refresh"]
    /\ pre' = [pre EXCEPT ![p] = self]
    /\ ObtainTokenEnter(p, <<>>)

\* The last request the call of p sent.
LastSend(lg) ==
    LET I == {i \in DOMAIN lg : lg[i].ev = "send"}
    IN  lg[CHOOSE i \in I : \A j \in I : j <= i]

\* _obtain_token leaves its `async with` block with outcome `out` (the token
\* it returns, or an exception): closing the client awaits, and the call is
\* suspended with the client still open.
ObtainTokenLeave(p, out) ==
    /\ pc' = [pc EXCEPT ![p] = "closing"]
    /\ result' = [result EXCEPT ![p] = out]

\* A cloud POST raises `exc`: the retry policy goes to sleep before the next
\* attempt, or gives way and the exception leaves _obtain_token.
PostFault(p, exc) ==
    /\ pc[p] \in {"login_wait", "token_wait"}
    /\ exc \in PostExceptions
    /\ attempt[p] <= MaxFaults
    /\ self' = self
    /\ UNCHANGED <<op, pre, attempt, cloud_clients>>
    /\ log' = [log EXCEPT ![p] = Append(log[p], Fault)]
    /\ IF retry_if_exception_type(exc) /\ ~retry_stop(attempt[p])
       THEN /\ pc' = [pc EXCEPT ![p] = IF pc[p] = "login_wait"
                                       THEN "login_backoff"
                                       ELSE "token_backoff"]
            /\ UNCHANGED result
       ELSE ObtainTokenLeave(p, Raised(IF retry_if_exception_type(exc)
                                       THEN "RetryError" ELSE exc, <<>>))

\* The sleep of the retry policy is over: the POST is sent again.
RetrySend(p) ==
    /\ pc[p] \in {"login_backoff", "token_backoff"}
    /\ self' = self
    /\ UNCHANGED <<op, pre, result, cloud_clients>>
    /\ pc' = [pc EXCEPT ![p] = IF pc[p] = "login_backoff"
                                THEN "login_wait" ELSE "token_wait"]
    /\ log' = [log EXCEPT ![p] = Append(log[p], LastSend(log[p]))]
    /\ attempt' = [attempt EXCEPT ![p] = @ + 1]

\* The cloud answers the login POST.
LoginResponse(p, resp) ==
    /\ pc[p] = "login_wait"
    /\ resp \in LoginResponses
    /\ UNCHANGED <<op, pre, cloud_clients>>
    /\ LET lg == Append(log[p], Recv(resp))
           h == OnLogin(self, resp)
       IN  /\ self' = h.obj
           /\ IF h.out.raised # NoExc
              THEN /\ ObtainTokenLeave(p, h.out)
                   /\ log' = [log EXCEPT ![p] = lg]
                   /\ UNCHANGED attempt
              ELSE /\ pc' = [pc EXCEPT ![p] = "token_wait"]
                   /\ log' = [log EXCEPT ![p] =
                                 Append(lg, Send(TokenRequest(h.obj, h.out.val)))]
                   /\ attempt' = [attempt EXCEPT ![p] = 1]
                   /\ UNCHANGED result

\* The cloud answers the token POST: _obtain_token raises or returns the body.
TokenResponse(p, resp) ==
    /\ pc[p] = "token_wait"
    /\ resp \in TokenResponses
    /\ self' = self
    /\ UNCHANGED <<op, pre, attempt, cloud_clients>>
    /\ log' = [log EXCEPT ![p] = Append(log[p], Recv(resp))]
    /\ ObtainTokenLeave(p, OnToken(resp))

\* The cloud client is closed and _obtain_token is left: its exception ends
\* the call, or setup or refresh goes on with the token it returned.
CloudClientClosed(p) ==
    /\ pc[p] = "closing"
    /\ UNCHANGED <<op, pre, attempt>>
    /\ cloud_clients' = [cloud_clients EXCEPT ![p] = aexit(@)]
    /\ LET t == result[p]
           s == SetupStoreToken(self, t.val)
       IN  IF t.raised # NoExc
           THEN /\ Finish(p, t)
                /\ UNCHANGED <<self, log>>
           ELSE IF op[p] = "refresh"
           THEN /\ self' = RefreshStoreToken(self, t.val)
                /\ Finish(p, Value(None))
                /\ UNCHANGED log
           ELSE IF s.out.raised # NoExc
           THEN /\ self' = s.obj
                /\ Finish(p, s.out)
                /\ UNCHANGED log
           ELSE /\ self' = s.obj
                /\ SendCheckJwt(p, s.obj, log[p])

\* The device answers the check_jwt GET.
CheckJwtResponse(p, resp) ==
    /\ pc[p] = "jwt_wait"
    /\ resp \in CheckJwtResponses
    /\ UNCHANGED <<op, pre, attempt, cloud_clients>>
    /\ log' = [log EXCEPT ![p] = Append(log[p], Recv(resp))]
    /\ LET h == OnCheckJwt(self, resp)
       IN  /\ self' = h.obj
           /\ Finish(p, h.out)

\* The check_jwt GET raises: setup does not catch it.
CheckJwtFault(p, exc) ==
    /\ pc[p] = "jwt_wait"
    /\ exc \in GetExceptions
    /\ UNCHANGED <<self, op, pre, attempt, cloud_clients>>
    /\ log' = [log EXCEPT ![p] = Append(log[p], Fault)]
    /\ Finish(p, Raised(exc, <<>>))

\* The caller reads one of the properties.
ReadProperty(p, name) ==
    /\ pc[p] \in {"idle", "done"}
    /\ name \in Properties
    /\ op' = [op EXCEPT ![p] = name]
    /\ pre' = [pre EXCEPT ![p] = self]
    /\ log' = [log EXCEPT ![p] = <<>>]
    /\ cloud_clients' = [cloud_clients EXCEPT ![p] = <<>>]
    /\ attempt' = [attempt EXCEPT ![p] = 0]
    /\ Finish(p, GetProperty(self, name))
    /\ self' = self

Step(p) ==
    \/ CallSetup(p)
    \/ CallRefresh(p)
    \/ \E exc \in PostExceptions : PostFault(p, exc)
    \/ RetrySend(p)
    \/ CloudClientClosed(p)
    \/ \E resp \in LoginResponses : LoginResponse(p, resp)
    \/ \E resp \in TokenResponses : TokenResponse(p, resp)
    \/ \E resp \in CheckJwtResponses : CheckJwtResponse(p, resp)
    \/ \E exc \in GetExceptions : CheckJwtFault(p, exc)
    \/ \E name \in Properties : ReadProperty(p, name)

\* One task calls the authenticator and awaits each call before the next.
Next == Step(1)

Spec == Init /\ [][Next]_vars

\* Two tasks each call setup once on the same authenticator; the event loop
\* runs them in any order, switching at the awaits.
ConcStep(p) ==
    \/ pc[p] = "idle" /\ CallSetup(p)
    \/ \E exc \in PostExceptions : PostFault(p, exc)
    \/ RetrySend(p)
    \/ CloudClientClosed(p)
    \/ \E resp \in LoginResponses : LoginResponse(p, resp)
    \/ \E resp \in TokenResponses : TokenResponse(p, resp)
    \/ \E resp \in CheckJwtResponses : CheckJwtResponse(p, resp)
    \/ \E exc \in GetExceptions : CheckJwtFault(p, exc)

ConcNext == \E p \in Callers : ConcStep(p)

ConcSpec == Init /\ [][ConcNext]_vars

\* The program's own steps happen: a retry sleep ends (it lasts at most three
\* seconds) and the closing of the cloud client completes.
ProgramFairness ==
    /\ WF_vars(RetrySend(1))
    /\ WF_vars(CloudClientClosed(1))

\* The cloud answers: a POST that is attempted again and again gets an HTTP
\* response in the end. The answer is not possible while the policy sleeps,
\* so this is strong fairness.
FairSpec ==
    /\ Spec
    /\ ProgramFairness
    /\ SF_vars(\E resp \in LoginResponses : LoginResponse(1, resp))
    /\ SF_vars(\E resp \in TokenResponses : TokenResponse(1, resp))

\* ------------------------------------------------------- EnvoyLegacyAuth

\* Constructor arguments of the legacy authenticator, and endpoints asked for.
LegacyHosts == {"envoy.local", "192.168.1.10"}
LegacyUsernames == {"", "envoy", "installer"}
LegacyPasswords == {"", "041234", "secret"}
Endpoints == {"/info", "/production.json"}

\* httpx.DigestAuth(username, password), written as its constructor call.
DigestAuth(username, password) ==
    "DigestAuth(" \o username \o ", " \o password \o ")"

\* Mutant: the guard of auth joins its two tests with `and`.
legacy_auth_And(obj) ==
    IF ~Truthy(obj.local_username) /\ ~Truthy(obj.local_password)
    THEN Value(None)
    ELSE Value(DigestAuth(obj.local_username, obj.local_password))

\* The property EnvoyLegacyAuth.auth
legacy_auth(obj) ==
    IF ~Truthy(obj.local_username) \/ ~Truthy(obj.local_password)
    THEN Value(None)
    ELSE Value(DigestAuth(obj.local_username, obj.local_password))

\* The properties EnvoyLegacyAuth.headers and EnvoyLegacyAuth.cookies: {}
legacy_headers(obj) == Value(<<>>)
legacy_cookies(obj) == Value(<<>>)

\* EnvoyLegacyAuth.get_endpoint_url
legacy_get_endpoint_url(obj, endpoint) == "http://" \o obj.host \o endpoint

LegacyProperties == {"auth", "headers", "cookies"}

LegacyGetProperty(obj, name) ==
    CASE name = "auth" -> legacy_auth(obj)
      [] name = "headers" -> legacy_headers(obj)
      [] name = "cookies" -> legacy_cookies(obj)

\* EnvoyLegacyAuth(host, username, password)
LegacyInit ==
    /\ self \in [host : LegacyHosts, local_username : LegacyUsernames,
                  local_password : LegacyPasswords]
    /\ pc = [p \in Callers |-> "idle"]
    /\ op = [p \in Callers |-> "none"]
    /\ pre = [p \in Callers |-> self]
    /\ log = [p \in Callers |-> <<>>]
    /\ cloud_clients = [p \in Callers |-> <<>>]
    /\ attempt = [p \in Callers |-> 0]
    /\ result = [p \in Callers |-> Value(None)]

\* The call of p on the legacy authenticator returns `out` at once, having
\* used no client.
LegacyCall(p, name, out) ==
    /\ pc[p] \in {"idle", "done"}
    /\ op' = [op EXCEPT ![p] = name]
    /\ pre' = [pre EXCEPT ![p] = self]
    /\ log' = [log EXCEPT ![p] = <<>>]
    /\ cloud_clients' = [cloud_clients EXCEPT ![p] = <<>>]
    /\ attempt' = [attempt EXCEPT ![p] = 0]
    /\ Finish(p, out)
    /\ self' = self

\* await auth.setup(client): nothing to do
LegacySetup(p) == LegacyCall(p, "setup", Value(None))

\* The caller reads auth, headers or cookies.
LegacyReadProperty(p, name) ==
    /\ name \in LegacyProperties
    /\ LegacyCall(p, name, LegacyGetProperty(self, name))

\* The caller asks for the URL of an endpoint.
LegacyGetEndpointUrl(p, endpoint) ==
    /\ endpoint \in Endpoints
    /\ LegacyCall(p, "get_endpoint_url",
                  Value(legacy_get_endpoint_url(self, endpoint)))

LegacyNext ==
    \/ LegacySetup(1)
    \/ \E name \in LegacyProperties : LegacyReadProperty(1, name)
    \/ \E endpoint \in Endpoints : LegacyGetEndpointUrl(1, endpoint)

LegacySpec == LegacyInit /\ [][LegacyNext]_vars

\* =============================================================== properties

\* Attribute a is the same (unset, or set to the same value) in o1 and o2.
SameAttr(o1, o2, a) ==
    /\ HasAttr(o1, a) <=> HasAttr(o2, a)
    /\ HasAttr(o1, a) => o1[a] = o2[a]

MutableAttrs == {"_token", "_manager_token", "_is_consumer", "_cookies"}

IsSend(e) == e.ev = "send"
IsRecv(e) == e.ev = "recv"

\* The call of p sent a request to url.
SentTo(p, url) ==
    \E i \in DOMAIN log[p] : IsSend(log[p][i]) /\ log[p][i].req.url = url

\* The positions of the answers the call of p got to a request to url
\* (an answer directly follows its request in the log).
AnswersTo(p, url) ==
    {i \in DOMAIN log[p] :
        IsRecv(log[p][i]) /\ i > 1 /\ log[p][i - 1].req.url = url}

CheckJwtUrl == "https://envoy.local/auth/check_jwt"

Ended(p) == pc[p] = "done"
FailedSetup(p) ==
    Ended(p) /\ op[p] = "setup" /\ result[p].raised = EnvoyAuthenticationError

\* ---- C1
\* C1 as stated: after a setup that failed with AuthenticationError the token,
\* manager-token, consumer-flag and cookies are exactly those before the call.
C1_Original ==
    \A p \in Callers :
        FailedSetup(p) => \A a \in MutableAttrs : SameAttr(self, pre[p], a)

\* C1, amended: after a setup that failed with AuthenticationError the cookie
\* jar is as before the call. If no token POST was sent (missing credentials
\* or serial, non-200 or undecodable login answer, or a token held at the
\* start that failed verification) the token, manager-token and consumer-flag
\* are as before too. Otherwise the manager-token and consumer-flag are those
\* of the login answer, and the token is as before after a non-200 token
\* answer and is the body of the token answer after a 200 one.
C1_FailedSetupState ==
    \A p \in Callers :
        FailedSetup(p) =>
            /\ SameAttr(self, pre[p], "_cookies")
            /\ ~SentTo(p, TOKEN_URL) =>
                    \A a \in MutableAttrs : SameAttr(self, pre[p], a)
            /\ SentTo(p, TOKEN_URL) =>
                    /\ \E i \in AnswersTo(p, JSON_LOGIN_URL) :
                         LET body == orjson_loads(log[p][i].resp.text).val.items
                         IN  /\ self._is_consumer = body.is_consumer
                             /\ self._manager_token = body.manager_token
                    /\ \E i \in AnswersTo(p, TOKEN_URL) :
                         IF log[p][i].resp.status_code = 200
                         THEN self._token = log[p][i].resp.text
                         ELSE SameAttr(self, pre[p], "_token")

\* A setup that started without a token and failed at check_jwt: the token and
\* the manager-token it obtained stay cached.
C1_Witness ==
    /\ FailedSetup(1)
    /\ pre[1]._token = None
    /\ ~HasAttr(pre[1], "_manager_token")
    /\ self._token = "tokA"
    /\ HasAttr(self, "_manager_token")
    /\ SentTo(1, CheckJwtUrl)

\* ---- C2
C2_Failure ==
    \A p \in Callers :
        (/\ Ended(p)
         /\ op[p] = "setup"
         /\ AnswersTo(p, CheckJwtUrl) # {}
         /\ \A i \in AnswersTo(p, CheckJwtUrl) : log[p][i].resp.status_code # 200)
        => /\ result[p].raised = EnvoyAuthenticationError
           /\ SameAttr(self, pre[p], "_cookies")

C2_Write ==
    \/ SameAttr(self', self, "_cookies")
    \/ \E p \in Callers :
          /\ op[p] = "setup"
          /\ pc[p] = "jwt_wait"
          /\ pc'[p] = "done"
          /\ result'[p].raised = NoExc
          /\ LET e == log'[p][Len(log'[p])]
             IN  /\ IsRecv(e)
                 /\ e.resp.status_code = 200
                 /\ self'._cookies = e.resp.cookies

\* C2: a setup whose check_jwt answer is not 200 fails with
\* AuthenticationError and leaves the cookie jar as it was before the call
\* (unset, or the earlier cookies); the cookie jar changes only in the step in
\* which a setup receives a 200 check_jwt answer, and then to that answer's
\* cookies.
C2_CookiesOnlyOnVerified == [](C2_Failure) /\ [][C2_Write]_vars

\* A setup on an authenticator that holds cookies gets a 401 from check_jwt.
C2_Witness ==
    /\ FailedSetup(1)
    /\ HasAttr(pre[1], "_cookies")
    /\ \E i \in AnswersTo(1, CheckJwtUrl) : log[1][i].resp.status_code = 401

\* ---- C3
\* C3: a setup that starts with a non-empty token opens no cloud client and
\* sends exactly one request, the check_jwt GET on the caller's client,
\* whatever credentials and serial the authenticator has.
C3_TokenSkipsCloud ==
    \A p \in Callers :
        (op[p] = "setup" /\ Truthy(pre[p]._token)) =>
            /\ cloud_clients[p] = <<>>
            /\ log[p] # <<>>
            /\ LET sends == SelectSeq(log[p], IsSend)
               IN  /\ Len(sends) = 1
                   /\ log[p][1] = sends[1]
                   /\ sends[1].req.method = "GET"
                   /\ sends[1].req.client = "client"
                   /\ sends[1].req.url = CheckJwtUrl

\* A setup with a token and full cloud credentials has succeeded.
C3_Witness ==
    /\ Ended(1) /\ op[1] = "setup" /\ result[1].raised = NoExc
    /\ Truthy(pre[1]._token)
    /\ Truthy(self.cloud_username) /\ Truthy(self.cloud_password)
    /\ Truthy(self.envoy_serial)

\* ---- C4
\* C4: an answer with a status other than 200 to a cloud POST is the last
\* event of the call: nothing is sent after it, and _obtain_token fails with
\* AuthenticationError, which is the outcome of the call once the cloud
\* client is closed.
C4_Non200Terminal ==
    \A p \in Callers :
        \A i \in DOMAIN log[p] :
            (/\ IsRecv(log[p][i])
             /\ i > 1
             /\ log[p][i - 1].req.method = "POST"
             /\ log[p][i].resp.status_code # 200)
            => /\ i = Len(log[p])
               /\ pc[p] \in {"closing", "done"}
               /\ result[p].raised = EnvoyAuthenticationError

\* The login endpoint answered 401 with a body that decodes.
C4_Witness ==
    /\ Ended(1)
    /\ \E i \in AnswersTo(1, JSON_LOGIN_URL) :
          /\ log[1][i].resp.status_code = 401
          /\ log[1][i].resp.text = T_full1

\* ---- C5
\* The exceptions that are network errors, timeouts or remote-protocol errors.
C5_NetworkFaults ==
    {"NetworkError", "ConnectError", "ReadError",
     "TimeoutException", "ConnectTimeout", "ReadTimeout",
     "RemoteProtocolError"}

\* The POST the call of p is at.
C5_PostUrl(p) ==
    IF pc[p] \in {"login_wait", "login_backoff"} THEN JSON_LOGIN_URL
    ELSE TOKEN_URL

\* The fault leaves the call of p asleep at the same POST.
C5_Retry(p) ==
    /\ pc'[p] = (IF pc[p] = "login_wait" THEN "login_backoff"
                 ELSE "token_backoff")
    /\ result'[p].raised = NoExc
    /\ IsSend(log[p][Len(log[p])])
    /\ log'[p] = Append(log[p], Fault)
    /\ cloud_clients'[p] = cloud_clients[p]
    /\ self' = self

\* The call of p, asleep after a fault, sends the same request again.
C5_Resend(p) ==
    LET n == Len(log[p])
    IN  /\ pc'[p] = (IF pc[p] = "login_backoff" THEN "login_wait"
                     ELSE "token_wait")
        /\ result'[p].raised = NoExc
        /\ log[p][n] = Fault
        /\ log'[p] = Append(log[p], log[p][n - 1])
        /\ IsSend(log[p][n - 1])
        /\ log[p][n - 1].req.url = C5_PostUrl(p)
        /\ log[p][n - 1].req.method = "POST"
        /\ cloud_clients'[p] = cloud_clients[p]
        /\ self' = self

\* C5: whenever a cloud POST raises a network error, a timeout or a
\* remote-protocol error, whatever the number of attempts so far, the call
\* does not end: it sleeps at the same POST, and its next event is that same
\* request (same client, URL and body) sent again.
C5_FaultsRetried ==
    [][\A p \in Callers :
         /\ \A exc \in C5_NetworkFaults : PostFault(p, exc) => C5_Retry(p)
         /\ pc[p] \in {"login_backoff", "token_backoff"} => C5_Resend(p)]_vars

\* Both POSTs of one call were retried MaxFaults times.
C5_Witness ==
    /\ pc[1] = "token_wait"
    /\ attempt[1] = MaxFaults + 1
    /\ Cardinality({i \in DOMAIN log[1] : log[1][i].ev = "fault"}) = 2 * MaxFaults

\* ---- C6
InObtainToken(p) ==
    pc[p] \in {"login_wait", "login_backoff", "token_wait", "token_backoff",
               "closing"}

\* C6: a call opens at most one cloud client; it is open exactly while
\* _obtain_token is in progress, every cloud POST goes through it, and it is
\* closed in every state in which _obtain_token is not in progress.
C6_CloudClientScoped ==
    \A p \in Callers :
        /\ Len(cloud_clients[p]) <= 1
        /\ InObtainToken(p) <=> cloud_clients[p] = <<"open">>
        /\ ~InObtainToken(p) =>
              \A i \in DOMAIN cloud_clients[p] : cloud_clients[p][i] = "closed"
        /\ \A i \in DOMAIN log[p] :
              (IsSend(log[p][i]) /\ log[p][i].req.method = "POST")
              => /\ log[p][i].req.client = "cloud_client"
                 /\ Len(cloud_clients[p]) = 1

\* _obtain_token was left by an exception it does not raise itself.
C6_Witness ==
    /\ Ended(1)
    /\ result[1].raised = "KeyError"
    /\ cloud_clients[1] = <<"closed">>

\* ---- C7
\* C7 as stated: reading headers or token while the cached token is None or
\* the empty string fails with an assertion failure.
C7_Original ==
    \A p \in Callers :
        (Ended(p) /\ op[p] \in {"headers", "token"} /\ ~Truthy(pre[p]._token))
        => result[p].raised = "AssertionError"

\* ---- C8
MissingCredential(obj) ==
    ~Truthy(obj.cloud_username) \/ ~Truthy(obj.cloud_password)

\* C8: when the username, the password or the serial is None or empty, a
\* refresh, or a setup that holds no token, ends at once with
\* AuthenticationError, having opened no cloud client and sent nothing; if the
\* username or the password is the missing one the error is the
\* missing-credentials one, whatever the serial.
C8_MissingInputsFailFirst ==
    \A p \in Callers :
        (/\ op[p] \in {"setup", "refresh"}
         /\ op[p] = "setup" => ~Truthy(pre[p]._token)
         /\ MissingCredential(pre[p]) \/ ~Truthy(pre[p].envoy_serial))
        => /\ Ended(p)
           /\ result[p].raised = EnvoyAuthenticationError
           /\ log[p] = <<>>
           /\ cloud_clients[p] = <<>>
           /\ MissingCredential(pre[p]) => result[p].val = MsgNoCredentials
           /\ ~MissingCredential(pre[p]) => result[p].val = MsgNoSerial

\* A refresh with a username and a serial but an empty password.
C8_Witness ==
    /\ Ended(1) /\ op[1] = "refresh"
    /\ Truthy(self.cloud_username)
    /\ self.cloud_password = ""
    /\ Truthy(self.envoy_serial)
    /\ result[1].val = MsgNoCredentials

\* ---- C9
\* C9 as stated: a setup or refresh that got an answer to every request it
\* sent (the login body, where it decodes, being a JSON object with or
\* without the three fields) and did not succeed failed with
\* AuthenticationError.
C9_Original ==
    \A p \in Callers :
        (/\ Ended(p)
         /\ op[p] \in {"setup", "refresh"}
         /\ result[p].raised # NoExc
         /\ \A i \in DOMAIN log[p] : log[p][i].ev # "fault"
         /\ \A i \in AnswersTo(p, JSON_LOGIN_URL) : log[p][i].resp.text # T_scalar)
        => result[p].raised = EnvoyAuthenticationError

\* ---- C10
\* C10: after a refresh that succeeded the cached token is the body of the
\* token answer of that call, the call sent no check_jwt request (only the
\* two cloud POSTs), and the cookie jar is as before the call.
C10_RefreshReplacesToken ==
    \A p \in Callers :
        (Ended(p) /\ op[p] = "refresh" /\ result[p].raised = NoExc) =>
            LET last == log[p][Len(log[p])]
            IN  /\ IsRecv(last)
                /\ Len(log[p]) \in AnswersTo(p, TOKEN_URL)
                /\ last.resp.status_code = 200
                /\ self._token = last.resp.text
                /\ ~SentTo(p, CheckJwtUrl)
                /\ \A i \in DOMAIN log[p] :
                      IsSend(log[p][i]) => log[p][i].req.method = "POST"
                /\ SameAttr(self, pre[p], "_cookies")

\* A refresh replaced a non-empty token for which cookies had been obtained.
C10_Witness ==
    /\ Ended(1) /\ op[1] = "refresh" /\ result[1].raised = NoExc
    /\ Truthy(pre[1]._token)
    /\ Truthy(self._token)
    /\ self._token # pre[1]._token
    /\ HasAttr(self, "_cookies")

\* ---- C11
\* The requests of the call of p to url.
SendsTo(p, url) ==
    {i \in DOMAIN log[p] : IsSend(log[p][i]) /\ log[p][i].req.url = url}

\* C11: whenever a setup without a token, or a refresh, got a 200 token answer
\* (its credentials and serial are then present and its login answer was 200
\* with a complete body), _obtain_token returns exactly the text of that
\* answer, the token cached once it has returned is that text, and a
\* check_jwt request of that setup carries "Bearer " followed by exactly that
\* text; so after such a setup succeeded the cached token is that body.
C11_TokenIsBodyVerbatim ==
    \A p \in Callers :
        op[p] \in {"setup", "refresh"} =>
            \A i \in AnswersTo(p, TOKEN_URL) :
                log[p][i].resp.status_code = 200 =>
                    LET body == log[p][i].resp.text
                    IN  /\ Truthy(pre[p].cloud_username)
                        /\ Truthy(pre[p].cloud_password)
                        /\ Truthy(pre[p].envoy_serial)
                        /\ pc[p] = "closing" => result[p] = Value(body)
                        /\ pc[p] # "closing" => self._token = body
                        /\ \A j \in SendsTo(p, CheckJwtUrl) :
                              /\ j = i + 1
                              /\ log[p][j].req.headers =
                                    [Authorization |-> "Bearer " \o body]
                        /\ (Ended(p) /\ op[p] = "setup" /\ result[p].raised = NoExc)
                              => SendsTo(p, CheckJwtUrl) # {}

\* A setup that started without a token succeeded with the token "tokB".
C11_Witness ==
    /\ Ended(1) /\ op[1] = "setup" /\ result[1].raised = NoExc
    /\ pre[1]._token = None
    /\ self._token = "tokB"
    /\ \E i \in AnswersTo(1, TOKEN_URL) : log[1][i].resp.text = "tokB"
    /\ \E j \in SendsTo(1, CheckJwtUrl) :
          log[1][j].req.headers.Authorization = "Bearer tokB"

\* ---- C12
\* C12: a check_jwt request is in flight only while a non-empty token is
\* cached, and carries "Bearer " followed by that token; a setup whose token
\* answer is 200 with an empty body sends nothing more, ends with
\* AuthenticationError (unable to obtain token) once the cloud client is
\* closed, and has sent nothing to the device.
C12_CheckJwtNeedsToken ==
    \A p \in Callers :
        /\ \A j \in SendsTo(p, CheckJwtUrl) :
              /\ Truthy(self._token)
              /\ log[p][j].req.client = "client"
              /\ log[p][j].req.headers = [Authorization |-> "Bearer " \o self._token]
        /\ pc[p] = "jwt_wait" => SendsTo(p, CheckJwtUrl) # {}
        /\ (/\ op[p] = "setup"
            /\ \E i \in AnswersTo(p, TOKEN_URL) :
                  /\ log[p][i].resp.status_code = 200
                  /\ log[p][i].resp.text = "")
           => /\ pc[p] \in {"closing", "done"}
              /\ Ended(p) =>
                    /\ result[p].raised = EnvoyAuthenticationError
                    /\ result[p].val =
                          <<"Unable to obtain token for Envoy authentication.">>
              /\ \A j \in DOMAIN log[p] :
                    IsSend(log[p][j]) => log[p][j].req.client = "cloud_client"

\* A setup without a token got a 200 token answer with an empty body.
C12_Witness ==
    /\ Ended(1) /\ op[1] = "setup"
    /\ pre[1]._token = None
    /\ self._token = ""
    /\ \E i \in AnswersTo(1, TOKEN_URL) :
          log[1][i].resp.status_code = 200 /\ log[1][i].resp.text = ""

\* ---- C15
\* The login answer at position j of the call of p is 200 with a body that
\* decodes to an object with a session_id.
GoodLogin(p, j) ==
    LET d == orjson_loads(log[p][j].resp.text)
    IN  /\ log[p][j].resp.status_code = 200
        /\ d.raised = NoExc
        /\ d.val.type = "dict"
        /\ "session_id" \in DOMAIN d.val.items

\* C15: in a setup that starts without a token the first request is the
\* login POST; a token POST comes after a 200 login answer with a decodable
\* body and after every login POST, and carries that answer's session_id
\* with the configured serial number and username; the check_jwt GET comes
\* after a 200 token answer and after every token POST.
C15_RequestOrder ==
    \A p \in Callers :
        (op[p] = "setup" /\ ~Truthy(pre[p]._token)) =>
            /\ log[p] # <<>> =>
                  /\ IsSend(log[p][1])
                  /\ log[p][1].req.url = JSON_LOGIN_URL
                  /\ log[p][1].req.method = "POST"
            /\ \A i \in SendsTo(p, TOKEN_URL) :
                  /\ log[p][i].req.method = "POST"
                  /\ \A k \in SendsTo(p, JSON_LOGIN_URL) : k < i
                  /\ \E j \in AnswersTo(p, JSON_LOGIN_URL) :
                        /\ j < i
                        /\ GoodLogin(p, j)
                        /\ log[p][i].req.json =
                              [session_id |->
                                   orjson_loads(log[p][j].resp.text).val.items.session_id,
                               serial_num |-> pre[p].envoy_serial,
                               username |-> pre[p].cloud_username]
            /\ \A i \in SendsTo(p, CheckJwtUrl) :
                  /\ log[p][i].req.method = "GET"
                  /\ \A k \in SendsTo(p, TOKEN_URL) : k < i
                  /\ \E j \in AnswersTo(p, TOKEN_URL) :
                        j < i /\ log[p][j].resp.status_code = 200

\* A setup without a token went through login, token exchange (session "s2")
\* and verification, each POST having been retried once.
C15_Witness ==
    /\ op[1] = "setup" /\ ~Truthy(pre[1]._token)
    /\ Ended(1) /\ result[1].raised = NoExc
    /\ Cardinality(SendsTo(1, JSON_LOGIN_URL)) = 2
    /\ Cardinality(SendsTo(1, TOKEN_URL)) = 2
    /\ \E i \in SendsTo(1, TOKEN_URL) : log[1][i].req.json.session_id = "s2"
    /\ SendsTo(1, CheckJwtUrl) # {}

\* ---- C17
\* C17 as stated: in every state reached by serialized setup and refresh
\* calls, if the cookie jar is populated then a non-empty token is cached.
C17_Original ==
    HasAttr(self, "_cookies") => Truthy(self._token)

\* ---- C18
\* C18: after a refresh that failed, the cached token and the cookie jar are
\* as they were before the call, and headers gives what it gave before.
C18_FailedRefreshKeepsToken ==
    \A p \in Callers :
        (Ended(p) /\ op[p] = "refresh" /\ result[p].raised # NoExc) =>
            /\ SameAttr(self, pre[p], "_token")
            /\ SameAttr(self, pre[p], "_cookies")
            /\ headers(self) = headers(pre[p])

\* A refresh of a verified authenticator failed on a 500 token answer.
C18_Witness ==
    /\ Ended(1) /\ op[1] = "refresh"
    /\ result[1].raised = EnvoyAuthenticationError
    /\ \E i \in AnswersTo(1, TOKEN_URL) : log[1][i].resp.status_code = 500
    /\ HasAttr(self, "_cookies")
    /\ self._token = "tokA"
    /\ headers(self).val = [Authorization |-> "Bearer tokA"]

\* ---- C19
LoginAttrs == {"_manager_token", "_is_consumer"}

\* In this step the call of p receives a 200 login answer whose body decodes
\* to an object with both is_consumer and manager_token.
C19_LoginWithBoth(p) ==
    /\ pc[p] = "login_wait"
    /\ Len(log'[p]) > Len(log[p])
    /\ LET e == log'[p][Len(log[p]) + 1]
           d == orjson_loads(e.resp.text)
       IN  /\ IsRecv(e)
           /\ e.resp.status_code = 200
           /\ d.raised = NoExc
           /\ d.val.type = "dict"
           /\ {"is_consumer", "manager_token"} \subseteq DOMAIN d.val.items

C19_Populated(p) ==
    LET e == log'[p][Len(log[p]) + 1]
        items == orjson_loads(e.resp.text).val.items
    IN  /\ HasAttr(self', "_is_consumer")
        /\ HasAttr(self', "_manager_token")
        /\ self'._is_consumer = items.is_consumer
        /\ self'._manager_token = items.manager_token

\* C19 as stated: the manager-token and the consumer-flag change only when a
\* cloud login returns 200 with a decodable body containing them, and they
\* are then set to the values of that body.
C19_Original ==
    [][/\ (\E a \in LoginAttrs : ~SameAttr(self', self, a))
            => \E p \in Callers : C19_LoginWithBoth(p)
       /\ \A p \in Callers : C19_LoginWithBoth(p) => C19_Populated(p)]_vars

\* ---- C14
\* C14: on a legacy authenticator, after any sequence of calls, the
\* attributes are those given to the constructor and no request was sent;
\* a setup returned None; headers and cookies are the empty mapping; auth is
\* None exactly when the username or the password is empty, and otherwise
\* the digest credential of that username and password.
C14_LegacyIsStateless ==
    /\ self \in [host : LegacyHosts, local_username : LegacyUsernames,
                 local_password : LegacyPasswords]
    /\ \A p \in Callers :
          /\ pre[p] = self
          /\ log[p] = <<>>
          /\ cloud_clients[p] = <<>>
          /\ op[p] = "setup" => Ended(p) /\ result[p] = Value(None)
          /\ op[p] = "headers" => result[p].raised = NoExc /\ result[p].val = <<>>
          /\ op[p] = "cookies" => result[p].raised = NoExc /\ result[p].val = <<>>
          /\ op[p] = "auth" =>
                /\ result[p].raised = NoExc
                /\ result[p].val = None
                      <=> (self.local_username = "" \/ self.local_password = "")
                /\ result[p].val # None =>
                      result[p].val =
                          "DigestAuth(" \o self.local_username \o ", "
                                        \o self.local_password \o ")"
    /\ legacy_headers(self).val = <<>>
    /\ legacy_cookies(self).val = <<>>

\* auth was read on a legacy authenticator with a username and no password.
C14_Witness ==
    /\ Ended(1) /\ op[1] = "auth"
    /\ self.local_username = "envoy"
    /\ self.local_password = ""
    /\ result[1].val = None

\* ---- C16
\* Every _obtain_token in progress is left in the end.
C16_ObtainTokenTerminates ==
    \A p \in Callers : InObtainToken(p) ~> ~InObtainToken(p)

\* _obtain_token is left with a token or with AuthenticationError; an error
\* of the POST that the policy does not retry, which is no HTTP response, is
\* let through.
C16_TokenOrAuthenticationError ==
    \A p \in Callers :
        pc[p] = "closing" =>
            result[p].raised \in {NoExc, EnvoyAuthenticationError,
                                  "TooManyRedirects"}

\* C16 as stated: when every cloud POST that is attempted repeatedly
\* eventually gets an HTTP response, an _obtain_token in progress eventually
\* ends, and it ends by returning a token or raising AuthenticationError.
C16_Original ==
    /\ C16_ObtainTokenTerminates
    /\ []C16_TokenOrAuthenticationError

\* ---- C13
\* The setup of p succeeded after a full cloud round trip of its own.
C13_FullSetup(p) ==
    /\ op[p] = "setup" /\ Ended(p) /\ result[p].raised = NoExc
    /\ ~Truthy(pre[p]._token)
    /\ SendsTo(p, JSON_LOGIN_URL) # {}
    /\ SendsTo(p, TOKEN_URL) # {}

\* C13: concurrent setup calls are not coordinated. A setup that starts while
\* no token is cached sends its own login POST even when another setup is
\* already obtaining a token; a setup that gets a 200 token answer with a
\* non-empty body caches that body over whatever token is cached by then and
\* verifies that body; a setup whose check_jwt answer is 200 stores the
\* cookies of that answer and leaves the cached token alone, whether or not
\* it is still the token that setup verified.
C13_SetupsUncoordinated ==
    [][\A p \in Callers :
          /\ (/\ pc[p] = "idle" /\ pc'[p] = "login_wait")
                => /\ Len(log'[p]) = 1
                   /\ log'[p][1].req.url = JSON_LOGIN_URL
          /\ (/\ pc[p] = "idle" /\ pc'[p] # "idle"
              /\ ~Truthy(self._token)
              /\ ~MissingCredential(self)
              /\ Truthy(self.envoy_serial))
                => pc'[p] = "login_wait"
          /\ (/\ pc[p] = "closing" /\ pc'[p] = "jwt_wait")
                => LET n == Len(log'[p])
                   IN  /\ IsRecv(log'[p][n - 1])
                       /\ n - 1 = Len(log[p])
                       /\ self'._token = log'[p][n - 1].resp.text
                       /\ log'[p][n].req.headers.Authorization
                              = "Bearer " \o log'[p][n - 1].resp.text
          /\ (/\ pc[p] = "jwt_wait" /\ pc'[p] = "done"
              /\ result'[p].raised = NoExc)
                => LET n == Len(log'[p])
                   IN  /\ self'._cookies = log'[p][n].resp.cookies
                       /\ SameAttr(self', self, "_token")
    ]_vars

\* Both setups started without a token, both did the cloud login and the
\* token exchange and both succeeded; the stored cookies are those of the
\* check_jwt answer to a token that is not the cached one.
C13_Witness ==
    /\ \A p \in Callers : C13_FullSetup(p)
    /\ \E p, q \in Callers :
          /\ p # q
          /\ \E i \in AnswersTo(p, CheckJwtUrl) :
                /\ log[p][i].resp.cookies = self._cookies
                /\ log[p][i - 1].req.headers.Authorization
                       # "Bearer " \o self._token
          /\ \A j \in AnswersTo(q, CheckJwtUrl) :
                /\ log[q][j].resp.cookies # self._cookies
                /\ log[q][j - 1].req.headers.Authorization
                       = "Bearer " \o self._token

====
